---- MODULE Spec2Model ----
(***************************************************************************)
(* A model of Docker/gmap/gmap.py: the tiered extraction of a travel       *)
(* duration from a directions page, the append-only per-route CSV history  *)
(* and the read-back / decimation that feeds the charts.                   *)
(*                                                                         *)
(* Text is modelled at character level: a Python str is a sequence of      *)
(* one-character strings, so that lower(), replace(), split(), isdigit(),  *)
(* startswith() and the regular expressions are computed, not assumed.     *)
(* An Optional[T] is a sequence of length at most one: None is <<>> and a  *)
(* value v is <<v>>.                                                       *)
(***************************************************************************)
EXTENDS Integers, Sequences, FiniteSets, TLC

VARIABLES
    pc,         \* position of main(): "idle", "nav", "primary", ..., "done", "crashed"
    cycle,      \* number of invocations of main() started so far
    idx,        \* index into urls of the entry being processed (enumerate(urls))
    page,       \* what the page accessor answers during the current route cycle
    result,     \* the dict scrape_page returned, as completed by main()
    duration_text,
    duration_minutes,
    retry_duration_text,
    derived_fragment,
    tiers,      \* the tiers entered during the current route cycle, in order
    waits,      \* page.wait_for_timeout calls of the current route cycle (ms each)
    queries,    \* page queries made during the current route cycle
    tables,     \* per url entry: the lines of its CSV file (<<>>: no file yet)
    logs,       \* data_runs/logs.txt: the messages log_message appended
    snapshots,  \* the per-URL snapshot logs: the entries log_snapshot appended
    navok,      \* per cycle and entry: "ok", "failed" or "none" (goto not called)
    fn_in,      \* argument of the function under test (function harnesses)
    fn_out      \* its return value

vars == <<pc, cycle, idx, page, result, duration_text, duration_minutes,
          retry_duration_text, derived_fragment, tiers, waits, queries,
          tables, logs, snapshots, navok, fn_in, fn_out>>

-----------------------------------------------------------------------------
(* Optional values *)

None == <<>>

Some(v) == <<v>>

IsNone(o) == o = <<>>

Val(o) == o[1]

(* Python truthiness of an Optional[str]: None and "" are falsy. *)
Truthy(o) == o # <<>> /\ o[1] # <<>>

-----------------------------------------------------------------------------
(* Characters and strings *)

UpperChars == <<"A","B","C","D","E","F","G","H","I","J","K","L","M",
                "N","O","P","Q","R","S","T","U","V","W","X","Y","Z">>

LowerChars == <<"a","b","c","d","e","f","g","h","i","j","k","l","m",
                "n","o","p","q","r","s","t","u","v","w","x","y","z">>

DigitChars == <<"0","1","2","3","4","5","6","7","8","9">>

DigitSet == {"0","1","2","3","4","5","6","7","8","9"}

UpperSet == {UpperChars[i] : i \in 1..26}

LowerSet == {LowerChars[i] : i \in 1..26}

IsDigitChar(c) == c \in DigitSet

DigitValues == [c \in DigitSet |-> (CHOOSE i \in 1..10 : DigitChars[i] = c) - 1]

DigitValue(c) == DigitValues[c]

LowerOf == [c \in UpperSet |-> LowerChars[CHOOSE i \in 1..26 : UpperChars[i] = c]]

IsSpaceChar(c) == c \in {" ", "\t", "\n", "\r", "\f"}

LowerChar(c) == IF c \in UpperSet THEN LowerOf[c] ELSE c

(* str.lower() *)
Lower(s) == [i \in 1..Len(s) |-> LowerChar(s[i])]

(* s[i:].startswith(p), for a 1-based position i *)
StartsWithAt(s, i, p) ==
    /\ i + Len(p) - 1 <= Len(s)
    /\ \A j \in 1..Len(p) : s[i + j - 1] = p[j]

StartsWith(s, p) == StartsWithAt(s, 1, p)

(* str.replace(old, new): the non-overlapping occurrences, left to right *)
RECURSIVE ReplaceFrom(_, _, _, _)
ReplaceFrom(s, i, old, new) ==
    IF i > Len(s) THEN <<>>
    ELSE IF StartsWithAt(s, i, old)
         THEN new \o ReplaceFrom(s, i + Len(old), old, new)
         ELSE <<s[i]>> \o ReplaceFrom(s, i + 1, old, new)

Replace(s, old, new) == ReplaceFrom(s, 1, old, new)

(* The end of the maximal run of whitespace / of other characters that   *)
(* starts at position i (i - 1 when the run is empty).                     *)
SpaceRunEnd(s, i) ==
    CHOOSE j \in (i - 1)..Len(s) :
        /\ (j = Len(s) \/ ~IsSpaceChar(s[j + 1]))
        /\ \A k \in i..j : IsSpaceChar(s[k])

TokenEnd(s, i) ==
    CHOOSE j \in (i - 1)..Len(s) :
        /\ (j = Len(s) \/ IsSpaceChar(s[j + 1]))
        /\ \A k \in i..j : ~IsSpaceChar(s[k])

(* The tokens of s from position i on; i is the start of a token, or past *)
(* the end of s.                                                           *)
RECURSIVE TokensFrom(_, _)
TokensFrom(s, i) ==
    IF i > Len(s) THEN <<>>
    ELSE <<SubSeq(s, i, TokenEnd(s, i))>>
         \o TokensFrom(s, SpaceRunEnd(s, TokenEnd(s, i) + 1) + 1)

(* str.split(): the maximal runs of non-whitespace characters, in order *)
Split(s) == TokensFrom(s, SpaceRunEnd(s, 1) + 1)

RECURSIVE JoinFrom(_, _)
JoinFrom(toks, k) ==
    IF k > Len(toks) THEN <<>>
    ELSE IF k = Len(toks) THEN toks[k]
    ELSE toks[k] \o <<" ">> \o JoinFrom(toks, k + 1)

(* " ".join(text.split()) *)
Flatten(s) == JoinFrom(Split(s), 1)

(* str.strip() *)
Strip(s) ==
    IF \A i \in 1..Len(s) : IsSpaceChar(s[i]) THEN <<>>
    ELSE SubSeq(s,
           CHOOSE i \in 1..Len(s) :
               ~IsSpaceChar(s[i]) /\ \A j \in 1..(i - 1) : IsSpaceChar(s[j]),
           CHOOSE i \in 1..Len(s) :
               ~IsSpaceChar(s[i]) /\ \A j \in (i + 1)..Len(s) : IsSpaceChar(s[j]))

(* str.isdigit() *)
IsDigitStr(s) == Len(s) > 0 /\ \A i \in 1..Len(s) : IsDigitChar(s[i])

(* int(token) of a string of decimal digits *)
RECURSIVE IntOf(_)
IntOf(s) ==
    IF s = <<>> THEN 0
    ELSE 10 * IntOf(SubSeq(s, 1, Len(s) - 1)) + DigitValue(s[Len(s)])

(* str(n) of a natural number *)
RECURSIVE StrOf(_)
StrOf(n) ==
    IF n < 10 THEN <<DigitChars[n + 1]>>
    ELSE StrOf(n \div 10) \o <<DigitChars[(n % 10) + 1]>>

-----------------------------------------------------------------------------
(* parse_duration_minutes *)

(* The tokens of duration_text.lower().replace("hrs","hr").replace("mins","min").split() *)
DurationTokens(text) ==
    Split(Replace(Replace(Lower(text), <<"h","r","s">>, <<"h","r">>),
                  <<"m","i","n","s">>, <<"m","i","n">>))

RECURSIVE SumHours(_, _)
SumHours(tokens, i) ==
    IF i > Len(tokens) THEN 0
    ELSE LET next_token == IF i + 1 <= Len(tokens) THEN tokens[i + 1] ELSE <<>>
         IN (IF IsDigitStr(tokens[i]) /\ StartsWith(next_token, <<"h","r">>)
             THEN IntOf(tokens[i]) ELSE 0) + SumHours(tokens, i + 1)

RECURSIVE SumMinutes(_, _)
SumMinutes(tokens, i) ==
    IF i > Len(tokens) THEN 0
    ELSE LET next_token == IF i + 1 <= Len(tokens) THEN tokens[i + 1] ELSE <<>>
         IN (IF /\ IsDigitStr(tokens[i])
                /\ ~StartsWith(next_token, <<"h","r">>)
                /\ StartsWith(next_token, <<"m","i","n">>)
             THEN IntOf(tokens[i]) ELSE 0) + SumMinutes(tokens, i + 1)

(* A faulty variant: the total is returned without the "> 0" test. *)
parse_duration_minutes_nocheck(text) ==
    IF ~Truthy(text) THEN None
    ELSE LET tokens == DurationTokens(Val(text))
         IN Some(SumHours(tokens, 1) * 60 + SumMinutes(tokens, 1))

(* A faulty variant: hours are not scaled to minutes. *)
parse_duration_minutes_noscale(text) ==
    IF ~Truthy(text) THEN None
    ELSE LET tokens == DurationTokens(Val(text))
             total_minutes == SumHours(tokens, 1) + SumMinutes(tokens, 1)
         IN IF total_minutes > 0 THEN Some(total_minutes) ELSE None

parse_duration_minutes(text) ==
    IF ~Truthy(text) THEN None
    ELSE LET tokens == DurationTokens(Val(text))
             total_minutes == SumHours(tokens, 1) * 60 + SumMinutes(tokens, 1)
         IN IF total_minutes > 0 THEN Some(total_minutes) ELSE None

-----------------------------------------------------------------------------
(* extract_duration_fragment *)

(* A pattern is a sequence of elements: Digits is \d+, Spaces is \s*, and  *)
(* a sequence of letters is that literal, matched ignoring case.           *)
Digits == <<"\\d+">>

Spaces == <<"\\s*">>

patterns == <<
    << Digits, Spaces, <<"h","r">>, Spaces, Digits, Spaces, <<"m","i","n">> >>,
    << Digits, Spaces, <<"h","r">> >>,
    << Digits, Spaces, <<"m","i","n">> >> >>

(* The end of the maximal run of characters satisfying the class at i..   *)
DigitRunEnd(s, i) ==
    CHOOSE j \in (i - 1)..Len(s) :
        /\ (j = Len(s) \/ ~IsDigitChar(s[j + 1]))
        /\ \A k \in i..j : IsDigitChar(s[k])

(* The position after a match of pat[k..] at position i of s, or 0.  The   *)
(* greedy runs need no backtracking: what follows \d+ or \s* in these      *)
(* patterns never matches a character of the run.                          *)
RECURSIVE MatchFrom(_, _, _, _)
MatchFrom(s, i, pat, k) ==
    IF k > Len(pat) THEN i
    ELSE IF pat[k] = Digits
         THEN LET e == DigitRunEnd(s, i)
              IN IF e < i THEN 0 ELSE MatchFrom(s, e + 1, pat, k + 1)
    ELSE IF pat[k] = Spaces
         THEN MatchFrom(s, SpaceRunEnd(s, i) + 1, pat, k + 1)
    ELSE IF /\ i + Len(pat[k]) - 1 <= Len(s)
            /\ \A j \in 1..Len(pat[k]) : LowerChar(s[i + j - 1]) = pat[k][j]
         THEN MatchFrom(s, i + Len(pat[k]), pat, k + 1)
         ELSE 0

(* re.search(pat, text, re.IGNORECASE).group(1): the leftmost match *)
Search(pat, text) ==
    LET hits == {i \in 1..Len(text) :
                    IsDigitChar(text[i]) /\ MatchFrom(text, i, pat, 1) # 0}
    IN IF hits = {} THEN None
       ELSE LET i == CHOOSE h \in hits : \A g \in hits : h <= g
            IN Some(SubSeq(text, i, MatchFrom(text, i, pat, 1) - 1))

RECURSIVE FirstMatch(_, _)
FirstMatch(text, k) ==
    IF k > Len(patterns) THEN None
    ELSE IF Search(patterns[k], text) # None THEN Search(patterns[k], text)
    ELSE FirstMatch(text, k + 1)

extract_duration_fragment(text) == FirstMatch(text, 1)

-----------------------------------------------------------------------------
(* Configuration and the texts the page accessor may answer with *)

(* OUTPUT_FIELDS, in their fixed order *)
OUTPUT_FIELDS == <<
    <<"t","i","m","e","s","t","a","m","p","_","l","o","c","a","l">>,
    <<"d","a","y","_","o","f","_","w","e","e","k">>,
    <<"n","a","m","e">>,
    <<"p","a","g","e","_","t","i","t","l","e">>,
    <<"d","u","r","a","t","i","o","n","_","m","i","n","u","t","e","s">> >>

DayNames == <<
    <<"M","o","n","d","a","y">>,
    <<"T","u","e","s","d","a","y">>,
    <<"W","e","d","n","e","s","d","a","y">>,
    <<"T","h","u","r","s","d","a","y">>,
    <<"F","r","i","d","a","y">>,
    <<"S","a","t","u","r","d","a","y">>,
    <<"S","u","n","d","a","y">> >>

(* The URL entries load_urls() returned: name, direction, url. *)
urls == <<
    [name |-> <<"a"," ","b">>, direction |-> <<"N">>, url |-> <<"u","1">>],
    [name |-> <<"a","-","b">>, direction |-> <<"S">>, url |-> <<"u","2">>] >>

(* The number of invocations of main() that are followed. *)
MaxCycles == 2

(* The length of the long page body, longer than the snapshot limit. *)
LongBodyLen == 803

(* LOCAL_TZ as hours east of UTC (America/Toronto, standard time) *)
LocalUtcOffset == -5

(* flat[:800] in snapshot_text *)
SnapshotLimit == 800

(* page.wait_for_timeout(3000) *)
RetryWaitMs == 3000

T_empty == <<>>

T_27_min == <<" ","2","7"," ","m","i","n"," ">>

T_garbled == <<"g","a","r","b","l","e","d">>

T_card_27 == <<"F","a","s","t","e","s","t"," "," ","r","o","u","t","e"," ","2","7"," ","m","i","n","\t","a","v","a","i","l","a","b","l","e">>

T_card_glued == <<"F","a","s","t","e","s","t"," ","r","o","u","t","e"," ","2","7","m","i","n"," ","a","v","a","i","l","a","b","l","e">>

T_no_time_info == <<"n","o"," ","t","i","m","e"," ","i","n","f","o">>

T_via_42 == <<"v","i","a"," ","A"," ","4","2"," ","m","i","n">>

T_via_38 == <<"v","i","a"," ","B"," ","3","8"," ","m","i","n">>

T_via_50 == <<"v","i","a"," ","C"," ","5","0"," ","m","i","n">>

T_via_0_38 == <<"0"," ","h","r"," ","3","8"," ","m","i","n"," ","v","i","a"," ","F">>

T_zero_min == <<"0"," ","m","i","n">>

T_zero_hr == <<"n","o"," ","d","e","l","a","y"," ","0"," ","h","r">>

T_title == <<"M","a","p","s">>

T_short_body == <<"S","i","g","n"," ","i","n"," "," ","t","o"," ","M","a","p","s">>

(* A body of LongBodyLen characters in words of 99 letters. *)
T_long_body == [i \in 1..LongBodyLen |-> IF i % 100 = 0 THEN " " ELSE "x"]

(* What the page accessor answers during one route cycle.  nav: whether    *)
(* page.goto returns or raises; title, sel_first: the nodes the selectors  *)
(* find right after the load (None: no node, else the node's inner text);  *)
(* sel_retry: the same selectors after the wait; trip0: the node           *)
(* #section-directions-trip-0; others: the inner texts of the other nodes  *)
(* whose id starts with section-directions-trip-, in document order; body: *)
(* the inner text of body.                                                 *)
PageOf(nav, first, retry, trip0, others, body) ==
    [nav |-> nav, title |-> Some(T_title), sel_first |-> first, sel_retry |-> retry,
     trip0 |-> trip0, others |-> others, body |-> body]

NoNodes == <<None, None>>

Pages == <<
    PageOf("fail", NoNodes, NoNodes, None, <<>>, Some(T_empty)),
    PageOf("ok", <<Some(T_27_min), None>>, <<Some(T_27_min), None>>,
           Some(T_card_27), <<>>, Some(T_short_body)),
    PageOf("ok", <<None, Some(T_27_min)>>, <<None, Some(T_27_min)>>,
           None, <<T_via_38>>, Some(T_short_body)),
    PageOf("ok", <<Some(T_empty), Some(T_27_min)>>, <<Some(T_empty), Some(T_27_min)>>,
           Some(T_card_27), <<>>, Some(T_short_body)),
    PageOf("ok", NoNodes, <<Some(T_27_min), None>>,
           Some(T_card_27), <<>>, Some(T_short_body)),
    PageOf("ok", <<Some(T_garbled), None>>, <<Some(T_garbled), None>>,
           Some(T_card_27), <<T_via_42>>, Some(T_short_body)),
    PageOf("ok", NoNodes, NoNodes, Some(T_card_27), <<T_via_38>>, Some(T_short_body)),
    PageOf("ok", NoNodes, NoNodes, Some(T_card_glued), <<>>, Some(T_short_body)),
    PageOf("ok", NoNodes, NoNodes, Some(T_card_glued), <<T_via_38>>, Some(T_short_body)),
    PageOf("ok", NoNodes, NoNodes, Some(T_no_time_info),
           <<T_via_42, T_via_38, T_via_50>>, Some(T_short_body)),
    PageOf("ok", NoNodes, NoNodes, None,
           <<T_via_42, T_empty, T_via_38, T_via_0_38>>, Some(T_short_body)),
    PageOf("ok", NoNodes, NoNodes, Some(T_zero_min), <<T_zero_hr>>, Some(T_short_body)),
    PageOf("ok", NoNodes, NoNodes, Some(T_empty), <<>>, Some(T_long_body)),
    PageOf("ok", NoNodes, NoNodes, None, <<>>, Some(T_empty)) >>

PageIds == 1..Len(Pages)

(* scrape_page: the value of one field: the stripped inner text of the    *)
(* first selector of the list that finds a node.                          *)
RECURSIVE FirstNode(_, _)
FirstNode(nodes, k) ==
    IF k > Len(nodes) THEN None
    ELSE IF nodes[k] # None THEN Some(Strip(Val(nodes[k])))
    ELSE FirstNode(nodes, k + 1)

(* scrape_duration_value: the stripped inner text of the first selector   *)
(* that finds a node whose text is not empty.                             *)
RECURSIVE FirstText(_, _)
FirstText(nodes, k) ==
    IF k > Len(nodes) THEN None
    ELSE IF nodes[k] # None /\ Strip(Val(nodes[k])) # <<>>
         THEN Some(Strip(Val(nodes[k])))
    ELSE FirstText(nodes, k + 1)

scrape_duration_value(nodes) == FirstText(nodes, 1)

route_card_text(p) ==
    IF p.trip0 # None /\ Strip(Val(p.trip0)) # <<>>
    THEN Some(Flatten(Strip(Val(p.trip0))))
    ELSE None

(* The nodes query_selector_all finds: trip-0 if present, then the others. *)
CardNodes(p) == (IF p.trip0 # None THEN <<Val(p.trip0)>> ELSE <<>>) \o p.others

RECURSIVE CardTexts(_, _)
CardTexts(nodes, k) ==
    IF k > Len(nodes) THEN <<>>
    ELSE (IF Strip(nodes[k]) # <<>> THEN <<Flatten(Strip(nodes[k]))>> ELSE <<>>)
         \o CardTexts(nodes, k + 1)

route_cards_texts(p) == CardTexts(CardNodes(p), 1)

Prefix(s, n) == SubSeq(s, 1, IF Len(s) < n THEN Len(s) ELSE n)

(* A faulty variant: the snapshot is not cut. *)
snapshot_text_uncut(p) ==
    IF p.trip0 # None /\ Strip(Val(p.trip0)) # <<>>
    THEN Flatten(Strip(Val(p.trip0)))
    ELSE IF p.body # None /\ Strip(Val(p.body)) # <<>>
    THEN Flatten(Strip(Val(p.body)))
    ELSE <<>>

snapshot_text(p) ==
    IF p.trip0 # None /\ Strip(Val(p.trip0)) # <<>>
    THEN Prefix(Flatten(Strip(Val(p.trip0))), SnapshotLimit)
    ELSE IF p.body # None /\ Strip(Val(p.body)) # <<>>
    THEN Prefix(Flatten(Strip(Val(p.body))), SnapshotLimit)
    ELSE <<>>

(* The candidates of the multi-card tier: for each card, in order, whose   *)
(* fragment parses, the fragment and its minutes.                          *)
RECURSIVE Candidates(_, _)
Candidates(all_cards, k) ==
    IF k > Len(all_cards) THEN <<>>
    ELSE LET frag == extract_duration_fragment(all_cards[k])
             val == IF Truthy(frag) THEN parse_duration_minutes(frag) ELSE None
         IN (IF val # None THEN <<[frag |-> Val(frag), minutes |-> Val(val)]>> ELSE <<>>)
            \o Candidates(all_cards, k + 1)

SeqMin(c) == CHOOSE m \in {c[i].minutes : i \in 1..Len(c)} :
                 \A i \in 1..Len(c) : m <= c[i].minutes

(* A faulty variant: the last of the fastest cards is taken. *)
best_idx_last(c) ==
    CHOOSE i \in 1..Len(c) :
        /\ c[i].minutes = SeqMin(c)
        /\ \A j \in 1..Len(c) : c[j].minutes = SeqMin(c) => j <= i

(* minutes_list.index(min(minutes_list)) *)
best_idx(c) ==
    CHOOSE i \in 1..Len(c) :
        /\ c[i].minutes = SeqMin(c)
        /\ \A j \in 1..(i - 1) : c[j].minutes # SeqMin(c)

-----------------------------------------------------------------------------
(* Time and its text form.  An instant is a number of hours (UTC) counted  *)
(* from a Monday 00:00; a timestamp text is the local wall-clock hour      *)
(* followed, when it carries zone information, by a signed two-digit UTC   *)
(* offset: the shape of datetime.isoformat() reduced to hours.             *)

(* The UTC hour of the first invocation of main(). *)
FirstRunHour == 12

now_utc(c) == FirstRunHour + c

Abs(n) == IF n < 0 THEN 0 - n ELSE n

OffsetText(off) ==
    <<IF off < 0 THEN "-" ELSE "+">>
    \o <<DigitChars[(Abs(off) \div 10) + 1], DigitChars[(Abs(off) % 10) + 1]>>

(* now_utc.astimezone(LOCAL_TZ).isoformat() *)
isoformat(instant) == StrOf(instant + LocalUtcOffset) \o OffsetText(LocalUtcOffset)

(* local_dt.strftime("%A") *)
strftime_A(instant) == DayNames[(((instant + LocalUtcOffset) \div 24) % 7) + 1]

(* A faulty variant: a timestamp without zone information is read as UTC. *)
parse_timestamp_naive_utc(value) ==
    IF ~Truthy(value) THEN None
    ELSE LET v == Val(value)
             d == DigitRunEnd(v, 1)
             rest == SubSeq(v, d + 1, Len(v))
         IN IF d < 1 THEN None
            ELSE IF rest = <<>> THEN Some(IntOf(SubSeq(v, 1, d)))
            ELSE IF /\ Len(rest) = 3
                    /\ rest[1] \in {"+", "-"}
                    /\ IsDigitChar(rest[2]) /\ IsDigitChar(rest[3])
                 THEN Some(IntOf(SubSeq(v, 1, d))
                           - (IF rest[1] = "-" THEN 0 - IntOf(SubSeq(rest, 2, 3))
                              ELSE IntOf(SubSeq(rest, 2, 3))))
            ELSE None

(* parse_timestamp: None for an empty or unparsable text; a text with an   *)
(* offset denotes its instant, one without is taken as local time.  The    *)
(* datetime returned is in LOCAL_TZ; it is represented by its instant.     *)
parse_timestamp(value) ==
    IF ~Truthy(value) THEN None
    ELSE LET v == Val(value)
             d == DigitRunEnd(v, 1)
             rest == SubSeq(v, d + 1, Len(v))
         IN IF d < 1 THEN None
            ELSE IF rest = <<>> THEN Some(IntOf(SubSeq(v, 1, d)) - LocalUtcOffset)
            ELSE IF /\ Len(rest) = 3
                    /\ rest[1] \in {"+", "-"}
                    /\ IsDigitChar(rest[2]) /\ IsDigitChar(rest[3])
                 THEN Some(IntOf(SubSeq(v, 1, d))
                           - (IF rest[1] = "-" THEN 0 - IntOf(SubSeq(rest, 2, 3))
                              ELSE IntOf(SubSeq(rest, 2, 3))))
            ELSE None

(* float(cell), on decimal texts of whole numbers: surrounding whitespace, *)
(* an optional sign, digits, an optional fraction of zeros.  None stands   *)
(* for the TypeError / ValueError that load_csv_points catches.            *)
ParseFloat(cell) ==
    IF cell = None THEN None
    ELSE LET v == Strip(Val(cell))
             signed == Len(v) > 0 /\ v[1] \in {"+", "-"}
             u == IF signed THEN SubSeq(v, 2, Len(v)) ELSE v
             d == DigitRunEnd(u, 1)
             frac == SubSeq(u, d + 1, Len(u))
         IN IF d < 1 THEN None
            ELSE IF \/ frac = <<>>
                    \/ /\ frac[1] = "."
                       /\ \A i \in 2..Len(frac) : frac[i] = "0"
                 THEN Some(IF signed /\ v[1] = "-" THEN 0 - IntOf(SubSeq(u, 1, d))
                           ELSE IntOf(SubSeq(u, 1, d)))
            ELSE None

-----------------------------------------------------------------------------
(* The per-route CSV history *)

IsAlnumChar(c) == c \in DigitSet \/ c \in UpperSet \/ c \in LowerSet

(* clean_segment *)
clean_segment(text) ==
    IF Strip(text) = <<>> THEN <<"d","e","f","a","u","l","t">>
    ELSE [i \in 1..Len(Strip(text)) |->
            IF IsAlnumChar(Strip(text)[i]) \/ Strip(text)[i] \in {"-", "_"}
            THEN Strip(text)[i] ELSE "-"]

(* csv_path of an entry: OUTPUT_DIR / name_part / dir_part / name_part-dir_part.csv *)
csv_path(entry) == <<clean_segment(entry.name), clean_segment(entry.direction)>>

CsvPaths == {csv_path(urls[i]) : i \in 1..Len(urls)}

(* The text csv.DictWriter writes for a value: "" for None. *)
CellOfText(o) == IF o = None THEN <<>> ELSE Val(o)

CellOfInt(o) == IF o = None THEN <<>> ELSE StrOf(Val(o))

RowOf(res) ==
    << res.timestamp_local, res.day_of_week, res.name,
       CellOfText(res.page_title), CellOfInt(res.duration_minutes) >>

(* A faulty variant: the header is written with every row. *)
write_outputs_always_header(lines, res) ==
    lines \o <<OUTPUT_FIELDS>> \o <<RowOf(res)>>

(* write_outputs_for_result: the lines of the entry's file afterwards;     *)
(* lines = <<>> is the file that does not exist yet.                       *)
write_outputs_for_result(lines, res) ==
    LET write_header == lines = <<>>
    IN lines \o (IF write_header THEN <<OUTPUT_FIELDS>> ELSE <<>>) \o <<RowOf(res)>>

-----------------------------------------------------------------------------
(* main() *)

NoResult ==
    [url |-> <<>>, page_title |-> None, duration |-> None, timestamp_local |-> <<>>,
     day_of_week |-> <<>>, name |-> <<>>, duration_minutes |-> None]

NoCall == [fn |-> "none"]

(* A faulty variant: the next tier is entered whatever the earlier found. *)
NextTierAlways(minutes, tier) == tier

(* "if duration_minutes is None": the next tier is entered only then. *)
NextTier(minutes, tier) == IF minutes = None THEN tier ELSE "write"

(* The local variables of one pass of the loop over urls, before the pass. *)
LocalsInit ==
    /\ page = 0
    /\ result = NoResult
    /\ duration_text = None
    /\ duration_minutes = None
    /\ retry_duration_text = None
    /\ derived_fragment = None
    /\ tiers = <<>>
    /\ waits = <<>>
    /\ queries = <<>>

MainInit ==
    /\ cycle = 0
    /\ idx = 0
    /\ LocalsInit
    /\ tables = [p \in CsvPaths |-> <<>>]
    /\ logs = <<>>
    /\ snapshots = <<>>
    /\ navok = [i \in 1..Len(urls) |-> <<>>]

Init ==
    /\ MainInit
    /\ pc = "idle"
    /\ fn_in = NoCall
    /\ fn_out = None

(* main() is invoked: the URL list is loaded, the timestamp taken, the     *)
(* browser started.  logs and snapshots hold what this invocation appends. *)
StartRun ==
    /\ pc \in {"idle", "done", "crashed"}
    /\ cycle < MaxCycles
    /\ cycle' = cycle + 1
    /\ idx' = 1
    /\ pc' = "nav"
    /\ logs' = <<>>
    /\ snapshots' = <<>>
    /\ UNCHANGED <<page, result, duration_text, duration_minutes, retry_duration_text,
                   derived_fragment, tiers, waits, queries, tables, navok, fn_in, fn_out>>

(* scrape_page raised: the exception is logged and raised again, which     *)
(* ends main(). *)
NavigationFails(k) ==
    /\ Pages[k].nav = "fail"
    /\ page' = k
    /\ logs' = Append(logs, [kind |-> "exception", entry |-> idx, raw_value |-> None])
    /\ pc' = "crashed"
    /\ UNCHANGED <<cycle, idx, result, duration_text, duration_minutes,
                   retry_duration_text, derived_fragment, tiers, waits, queries,
                   tables, snapshots, navok, fn_in, fn_out>>

(* The dict scrape_page returns, with the fields main() adds at once. *)
ScrapedData(k, i, c) ==
    [NoResult EXCEPT
        !.url = urls[i].url,
        !.page_title = FirstNode(<<Pages[k].title>>, 1),
        !.duration = FirstNode(Pages[k].sel_first, 1),
        !.timestamp_local = isoformat(now_utc(c)),
        !.day_of_week = strftime_A(now_utc(c)),
        !.name = urls[i].name]

(* scrape_page returned: PRIMARY.  The fields are read with the selectors  *)
(* and the duration text is parsed.                                        *)
PrimaryTier(k) ==
    /\ Pages[k].nav = "ok"
    /\ page' = k
    /\ \E data \in {ScrapedData(k, idx, cycle)} :
       \E minutes \in {parse_duration_minutes(data.duration)} :
          /\ result' = data
          /\ duration_text' = data.duration
          /\ duration_minutes' = minutes
          /\ pc' = NextTier(minutes, "retry")
    /\ retry_duration_text' = None
    /\ derived_fragment' = None
    /\ tiers' = <<"PRIMARY">>
    /\ waits' = <<>>
    /\ queries' = <<"PRIMARY">>
    /\ navok' = [navok EXCEPT ![idx] = Append(@, cycle)]
    /\ UNCHANGED <<cycle, idx, tables, logs, snapshots, fn_in, fn_out>>

Navigate ==
    /\ pc = "nav"
    /\ \E k \in PageIds : NavigationFails(k) \/ PrimaryTier(k)

(* RETRY_WAIT: the first pass is logged, the fixed wait, the selectors again. *)
RetryTier ==
    /\ pc = "retry"
    /\ logs' = Append(logs, [kind |-> "missing_first", entry |-> idx,
                             raw_value |-> duration_text])
    /\ waits' = Append(waits, RetryWaitMs)
    /\ \E retry \in {scrape_duration_value(Pages[page].sel_retry)} :
       \E minutes \in {IF Truthy(retry) THEN parse_duration_minutes(retry)
                       ELSE duration_minutes} :
          /\ retry_duration_text' = retry
          /\ duration_text' = IF Truthy(retry) THEN retry ELSE duration_text
          /\ duration_minutes' = minutes
          /\ pc' = NextTier(minutes, "single")
    /\ tiers' = Append(tiers, "RETRY_WAIT")
    /\ queries' = Append(queries, "RETRY_WAIT")
    /\ UNCHANGED <<cycle, idx, page, result, derived_fragment, tables, snapshots,
                   navok, fn_in, fn_out>>

(* SINGLE_CARD_FALLBACK: the first card's text, its fragment, parsed. *)
SingleCardTier ==
    /\ pc = "single"
    /\ \E card_text \in {route_card_text(Pages[page])} :
       \E frag \in {IF Truthy(card_text) THEN extract_duration_fragment(Val(card_text))
                    ELSE None} :
       \E minutes \in {IF Truthy(frag) THEN parse_duration_minutes(frag)
                       ELSE duration_minutes} :
          /\ derived_fragment' = frag
          /\ duration_text' = IF Truthy(frag) THEN frag ELSE duration_text
          /\ duration_minutes' = minutes
          /\ pc' = NextTier(minutes, "multi")
    /\ tiers' = Append(tiers, "SINGLE_CARD_FALLBACK")
    /\ queries' = Append(queries, "SINGLE_CARD_FALLBACK")
    /\ UNCHANGED <<cycle, idx, page, result, retry_duration_text, waits, tables, logs,
                   snapshots, navok, fn_in, fn_out>>

(* MULTI_CARD_FALLBACK: every card's fragment, the fastest of those that parse. *)
MultiCardTier ==
    /\ pc = "multi"
    /\ \E c \in {Candidates(route_cards_texts(Pages[page]), 1)} :
       \E minutes \in {IF c # <<>> THEN Some(c[best_idx(c)].minutes)
                       ELSE duration_minutes} :
          /\ duration_minutes' = minutes
          /\ duration_text' = IF c # <<>> THEN Some(c[best_idx(c)].frag)
                              ELSE duration_text
          /\ pc' = NextTier(minutes, "failed")
    /\ tiers' = Append(tiers, "MULTI_CARD_FALLBACK")
    /\ queries' = Append(queries, "MULTI_CARD_FALLBACK")
    /\ UNCHANGED <<cycle, idx, page, result, retry_duration_text, derived_fragment,
                   waits, tables, logs, snapshots, navok, fn_in, fn_out>>

(* FAILED: the snapshot is taken and the diagnostic entry appended. *)
FailedTier ==
    /\ pc = "failed"
    /\ snapshots' = Append(snapshots,
          [entry |-> idx, raw_first |-> result.duration,
           raw_retry |-> retry_duration_text,
           card_text_fragment |-> derived_fragment,
           snapshot |-> snapshot_text(Pages[page])])
    /\ pc' = "write"
    /\ tiers' = Append(tiers, "FAILED")
    /\ queries' = Append(queries, "FAILED")
    /\ UNCHANGED <<cycle, idx, page, result, duration_text, duration_minutes,
                   retry_duration_text, derived_fragment, waits, tables, logs, navok,
                   fn_in, fn_out>>

(* The row is completed and appended to the entry's file; the loop goes on *)
(* to the next entry, whose pass sets the local variables anew, or ends.   *)
WriteRow ==
    /\ pc = "write"
    /\ tables' = [tables EXCEPT ![csv_path(urls[idx])] =
                    write_outputs_for_result(@,
                        [result EXCEPT !.duration_minutes = duration_minutes])]
    /\ IF idx < Len(urls)
       THEN idx' = idx + 1 /\ pc' = "nav"
       ELSE idx' = idx /\ pc' = "graphs"
    /\ page' = 0
    /\ result' = NoResult
    /\ duration_text' = None
    /\ duration_minutes' = None
    /\ retry_duration_text' = None
    /\ derived_fragment' = None
    /\ tiers' = <<>>
    /\ waits' = <<>>
    /\ queries' = <<>>
    /\ UNCHANGED <<cycle, logs, snapshots, navok, fn_in, fn_out>>

(* browser.close(), generate_all_graphs(), the closing print. *)
Finish ==
    /\ pc = "graphs"
    /\ pc' = "done"
    /\ UNCHANGED <<cycle, idx, page, result, duration_text, duration_minutes,
                   retry_duration_text, derived_fragment, tiers, waits, queries,
                   tables, logs, snapshots, navok, fn_in, fn_out>>

Next ==
    \/ StartRun
    \/ Navigate
    \/ RetryTier
    \/ SingleCardTier
    \/ MultiCardTier
    \/ FailedTier
    \/ WriteRow
    \/ Finish

Spec == Init /\ [][Next]_vars

-----------------------------------------------------------------------------
(* Properties of main() *)

TierOrder ==
    <<"PRIMARY", "RETRY_WAIT", "SINGLE_CARD_FALLBACK", "MULTI_CARD_FALLBACK", "FAILED">>

TableOf(i) == tables[csv_path(urls[i])]

LastRow(lines) == lines[Len(lines)]

(* Entry i's row of the current invocation has been written. *)
RowWritten(i) ==
    \/ i < idx
    \/ i = idx /\ pc \in {"graphs", "done"}

InPipeline == pc \in {"retry", "single", "multi", "failed", "write"}

(* C1: a navigation failure on route k aborts only route k's cycle: when  *)
(* the invocation of main() has ended, every route after k has its row of *)
(* this run in its table.                                                  *)
C1_LaterRoutesStillScraped ==
    pc \in {"done", "crashed"} =>
        \A n \in 1..Len(logs) :
            logs[n].kind = "exception" =>
                \A j \in (logs[n].entry + 1)..Len(urls) :
                    /\ TableOf(j) # <<>>
                    /\ LastRow(TableOf(j))[1] = isoformat(now_utc(cycle))

(* The fragments the multi-card tier extracts from the cards of a page. *)
RECURSIVE CardFragments(_, _)
CardFragments(cards, k) ==
    IF k > Len(cards) THEN {}
    ELSE (IF extract_duration_fragment(cards[k]) # None
          THEN {extract_duration_fragment(cards[k])} ELSE {})
         \cup CardFragments(cards, k + 1)

(* When every tier failed: the pipeline went through the five tiers and   *)
(* appended exactly one diagnostic entry for the route, which carries the *)
(* raw values of the primary, retry and single-card tiers and a snapshot   *)
(* of at most SnapshotLimit characters.                                    *)
FailedEntryEmitted ==
    (pc = "write" /\ duration_minutes = None) =>
        /\ tiers = TierOrder
        /\ Cardinality({n \in 1..Len(snapshots) : snapshots[n].entry = idx}) = 1
        /\ snapshots # <<>>
        /\ LastRow(snapshots).entry = idx
        /\ LastRow(snapshots).raw_first = result.duration
        /\ LastRow(snapshots).raw_retry = retry_duration_text
        /\ LastRow(snapshots).card_text_fragment = derived_fragment
        /\ Len(LastRow(snapshots).snapshot) <= SnapshotLimit
        /\ LastRow(snapshots).snapshot =
              Prefix(LastRow(snapshots).snapshot, Len(LastRow(snapshots).snapshot))

(* A route with a diagnostic entry in this run gets its row all the same, *)
(* with an empty (null) duration.                                          *)
FailedRowIsNull ==
    \A n \in 1..Len(snapshots) :
        RowWritten(snapshots[n].entry) =>
            /\ TableOf(snapshots[n].entry) # <<>>
            /\ LastRow(TableOf(snapshots[n].entry))[1] = isoformat(now_utc(cycle))
            /\ LastRow(TableOf(snapshots[n].entry))[5] = <<>>

(* A pass whose navigation succeeded goes on to write its row: no step of *)
(* the pipeline ends the run.                                              *)
PipelineStep ==
    InPipeline =>
        /\ pc' \in {"retry", "single", "multi", "failed", "write", "nav", "graphs"}
        /\ pc = "write" => Len(tables'[csv_path(urls[idx])]) =
                               Len(tables[csv_path(urls[idx])]) + 1
                               + (IF tables[csv_path(urls[idx])] = <<>> THEN 1 ELSE 0)

C3_TiersState ==
    /\ Len(tiers) <= Len(TierOrder)
    /\ \A n \in 1..Len(tiers) : tiers[n] = TierOrder[n]
    /\ queries = tiers
    /\ waits = (IF Len(tiers) >= 2 THEN <<RetryWaitMs>> ELSE <<>>)
    /\ (InPipeline /\ duration_minutes # None) => pc = "write"
    /\ (InPipeline /\ duration_minutes = None /\ pc # "write") =>
          pc = <<"retry", "single", "multi", "failed">>[Len(tiers)]

C3_TiersStep ==
    /\ (tiers # <<>> /\ tiers' # tiers /\ tiers' # <<>>) =>
          /\ duration_minutes = None
          /\ tiers' = Append(tiers, TierOrder[Len(tiers) + 1])
    /\ (InPipeline /\ duration_minutes # None) =>
          /\ queries' = <<>>
          /\ tiers' = <<>>
          /\ LastRow(tables'[csv_path(urls[idx])])[5] = StrOf(Val(duration_minutes))
    /\ (waits' # waits /\ waits' # <<>>) =>
          /\ tiers = <<"PRIMARY">>
          /\ duration_minutes = None

C3_TierOrder == []C3_TiersState /\ [][C3_TiersStep]_vars

(* C3 witness: the single-card tier succeeded after the primary and the    *)
(* retry failed; the pass is about to write.                               *)
C3_Witness ==
    /\ pc = "write"
    /\ tiers = SubSeq(TierOrder, 1, 3)
    /\ waits = <<RetryWaitMs>>
    /\ duration_minutes # None

(* C4: when the multi-card tier finds candidates, duration_minutes is the *)
(* least of their minutes, taken from the first card that has it, and the  *)
(* duration text is that card's fragment.                                  *)
C4_MultiCardMinimum ==
    (pc = "write" /\ Len(tiers) = 4) =>
        \E c \in {Candidates(route_cards_texts(Pages[page]), 1)} :
        \E i \in 1..Len(c) :
            /\ duration_minutes = Some(c[i].minutes)
            /\ duration_text = Some(c[i].frag)
            /\ \A j \in 1..Len(c) : c[j].minutes >= c[i].minutes
            /\ \A j \in 1..(i - 1) : c[j].minutes > c[i].minutes

(* C4 witness: the candidates 42, 38, 50 gave 38. *)
C4_Witness ==
    /\ pc = "write"
    /\ Len(tiers) = 4
    /\ LET c == Candidates(route_cards_texts(Pages[page]), 1)
       IN /\ [i \in 1..Len(c) |-> c[i].minutes] = <<42, 38, 50>>
          /\ duration_minutes = Some(38)

(* C4 witness of the tie: two cards have the least minutes, with different *)
(* fragments.                                                              *)
C4_TieReached ==
    /\ pc = "write"
    /\ Len(tiers) = 4
    /\ LET c == Candidates(route_cards_texts(Pages[page]), 1)
       IN \E i, j \in 1..Len(c) :
             i < j /\ c[i].minutes = c[j].minutes /\ c[i].frag # c[j].frag
                   /\ duration_minutes = Some(c[i].minutes)

(* The minutes a fragment denotes: its first number counts hours when the *)
(* fragment names hours, and the number after it, if any, minutes.         *)
FragmentMinutes(frag) ==
    LET d1 == DigitRunEnd(frag, 1)
        hasHr == \E i \in 1..(Len(frag) - 1) :
                    LowerChar(frag[i]) = "h" /\ LowerChar(frag[i + 1]) = "r"
        digits == {i \in (d1 + 1)..Len(frag) : IsDigitChar(frag[i])}
        second == IF digits = {} THEN 0
                  ELSE LET a == CHOOSE i \in digits : \A j \in digits : i <= j
                       IN IntOf(SubSeq(frag, a, DigitRunEnd(frag, a)))
    IN IF hasHr THEN IntOf(SubSeq(frag, 1, d1)) * 60 + second
       ELSE IntOf(SubSeq(frag, 1, d1))

(* C5: when the primary and the retry yield no parsed duration and the    *)
(* first card's text holds a duration phrase that the extractor returns,   *)
(* the final duration_minutes is the minutes the phrase denotes.           *)
C5_SingleCardRecovers ==
    (pc = "write" /\ Len(tiers) >= 3 /\ Truthy(derived_fragment)
        /\ FragmentMinutes(Val(derived_fragment)) > 0) =>
        duration_minutes = Some(FragmentMinutes(Val(derived_fragment)))

(* The table of entry i up to now: the cycles whose rows it must hold. *)
WrittenCycles(i) ==
    IF InPipeline /\ idx = i
    THEN SubSeq(navok[i], 1, Len(navok[i]) - 1)
    ELSE navok[i]

IsPrefix(s, t) == Len(s) <= Len(t) /\ SubSeq(t, 1, Len(s)) = s

(* C7: a route's table is one header row followed by one data row per     *)
(* cycle in which the route's navigation succeeded, in cycle order, and an *)
(* append leaves the rows before it unchanged.                             *)
C7_TableState ==
    \A i \in 1..Len(urls) :
        IF WrittenCycles(i) = <<>> THEN TableOf(i) = <<>>
        ELSE /\ Len(TableOf(i)) = 1 + Len(WrittenCycles(i))
             /\ TableOf(i)[1] = OUTPUT_FIELDS
             /\ \A r \in 1..Len(WrittenCycles(i)) :
                   /\ TableOf(i)[r + 1] # OUTPUT_FIELDS
                   /\ TableOf(i)[r + 1][1] = isoformat(now_utc(WrittenCycles(i)[r]))
                   /\ TableOf(i)[r + 1][3] = urls[i].name

C7_TableStep == \A p \in CsvPaths : IsPrefix(tables[p], tables'[p])

C8_DurationPositiveOrNull ==
    /\ duration_minutes = None \/ Val(duration_minutes) > 0
    /\ \A p \in CsvPaths : \A r \in 2..Len(tables[p]) :
          \/ tables[p][r][5] = <<>>
          \/ IsDigitStr(tables[p][r][5]) /\ IntOf(tables[p][r][5]) > 0

(* C8 witness: a table holds a row with a positive duration and a row with *)
(* a null one, the latter from cards whose fragments denote zero.          *)
C8_Witness ==
    /\ \E p \in CsvPaths : \E r, q \in 2..Len(tables[p]) :
          tables[p][r][5] = <<>> /\ tables[p][q][5] # <<>>
    /\ \E n \in 1..Len(snapshots) : snapshots[n].card_text_fragment = Some(T_zero_min)

-----------------------------------------------------------------------------
(* parse_duration_minutes on its own: one call on a text *)

mainvars ==
    <<cycle, idx, page, result, duration_text, duration_minutes, retry_duration_text,
      derived_fragment, tiers, waits, queries, tables, logs, snapshots, navok>>

HourCounts == {0, 1, 2, 12}

MinuteCounts == {0, 5, 27, 90}

(* Runs of one or more whitespace characters. *)
WhitespaceRuns == { <<" ">>, <<" ", " ">>, <<"\t">>, <<"\n", " ">> }

UnitSpellings ==
    { [hr |-> <<"h","r">>, min |-> <<"m","i","n">>],
      [hr |-> <<"H","R">>, min |-> <<"M","I","N">>],
      [hr |-> <<"H","r","s">>, min |-> <<"M","i","n","s">>],
      [hr |-> <<"h","r","s">>, min |-> <<"m","i","n","s">>] }

(* The phrase "<H> hr <M> min", "<H> hr" or "<M> min" of a call. *)
PhraseText(h, m, ws, unit) ==
    (IF h = None THEN <<>> ELSE StrOf(Val(h)) \o ws \o unit.hr)
    \o (IF h # None /\ m # None THEN ws ELSE <<>>)
    \o (IF m = None THEN <<>> ELSE StrOf(Val(m)) \o ws \o unit.min)

(* Texts without a number followed by a unit. *)
NoPairTexts ==
    { <<>>, <<"2","7">>, <<"m","i","n"," ","2","7">>, <<"2","7","m","i","n">>,
      <<"h","r">>, <<"s","o","o","n">>, <<"2","7"," ","k","m">>,
      <<"1","h","r"," ","5","m","i","n">> }

ParseCalls ==
    { [fn |-> "parse_duration_minutes", phrase |-> TRUE, h |-> h, m |-> m,
       ws |-> ws, unit |-> u, text |-> Some(PhraseText(h, m, ws, u))] :
         h \in {None} \cup {Some(n) : n \in HourCounts},
         m \in {None} \cup {Some(n) : n \in MinuteCounts},
         ws \in WhitespaceRuns, u \in UnitSpellings }
    \cup
    { [fn |-> "parse_duration_minutes", phrase |-> FALSE, h |-> None, m |-> None,
       ws |-> <<>>, unit |-> [hr |-> <<>>, min |-> <<>>], text |-> t] :
         t \in {None} \cup {Some(x) : x \in NoPairTexts} }

InitParse ==
    /\ MainInit
    /\ pc = "call"
    /\ fn_in \in ParseCalls
    /\ fn_out = None

ParseCall ==
    /\ pc = "call"
    /\ fn_in.fn = "parse_duration_minutes"
    /\ fn_out' = parse_duration_minutes(fn_in.text)
    /\ pc' = "ret"
    /\ UNCHANGED <<mainvars, fn_in>>

NextParse == ParseCall

SpecParse == InitParse /\ [][NextParse]_vars

(* C6: for a phrase "<H> hr <M> min", "<H> hr" or "<M> min", whatever the *)
(* whitespace between its words and the case of its letters,               *)
(* parse_duration_minutes returns H*60+M (an absent part counts 0), or     *)
(* null when that total is not positive; it returns null for a text with   *)
(* no number followed by a unit.                                           *)
C6_ParseIsHoursTimes60PlusMinutes ==
    (pc = "ret" /\ fn_in.fn = "parse_duration_minutes") =>
        LET H == IF fn_in.h = None THEN 0 ELSE Val(fn_in.h)
            M == IF fn_in.m = None THEN 0 ELSE Val(fn_in.m)
        IN IF fn_in.phrase /\ H * 60 + M > 0
           THEN fn_out = Some(H * 60 + M)
           ELSE fn_out = None

(* C6 witness: the phrase "1 HR 5 MIN", its words a tab apart, gave 65. *)
C6_Witness ==
    /\ pc = "ret"
    /\ fn_in.fn = "parse_duration_minutes"
    /\ fn_in.h = Some(1)
    /\ fn_in.m = Some(5)
    /\ fn_in.ws = <<"\t">>
    /\ fn_in.unit.hr = <<"H","R">>
    /\ fn_out = Some(65)

(* C6 witness of the null result: a phrase whose total is zero. *)
C6_ZeroTotalReached ==
    /\ pc = "ret"
    /\ fn_in.fn = "parse_duration_minutes"
    /\ fn_in.phrase
    /\ fn_in.h = Some(0)
    /\ fn_in.m = Some(0)
    /\ fn_out = None

-----------------------------------------------------------------------------
(* load_csv_points *)

(* row.get(name, ""): csv.DictReader keys a row's cells by the header's  *)
(* names; a cell missing at the end of a short row reads None.             *)
RowGet(header, row, name) ==
    LET ks == {k \in 1..Len(header) : header[k] = name}
    IN IF ks = {} THEN Some(<<>>)
       ELSE LET k == CHOOSE x \in ks : \A y \in ks : y <= x
            IN IF k <= Len(row) THEN Some(row[k]) ELSE None

(* The points of the data lines k.. of a file, in file order. *)
RECURSIVE PointsFrom(_, _)
PointsFrom(lines, k) ==
    IF k > Len(lines) THEN <<>>
    ELSE LET ts == parse_timestamp(RowGet(lines[1], lines[k], OUTPUT_FIELDS[1]))
             duration == ParseFloat(RowGet(lines[1], lines[k], OUTPUT_FIELDS[5]))
         IN (IF ts # None /\ duration # None
             THEN <<[ts |-> Val(ts), duration |-> Val(duration)]>>
             ELSE <<>>)
            \o PointsFrom(lines, k + 1)

(* sorted(points, key=lambda p: p[0]): stable, ascending by timestamp. *)
RECURSIVE sorted(_)
sorted(points) ==
    IF points = <<>> THEN <<>>
    ELSE LET rest == sorted(SubSeq(points, 1, Len(points) - 1))
             p == points[Len(points)]
             n == Cardinality({i \in 1..Len(rest) : rest[i].ts <= p.ts})
         IN SubSeq(rest, 1, n) \o <<p>> \o SubSeq(rest, n + 1, Len(rest))

load_csv_points(lines) == sorted(PointsFrom(lines, 2))

(* The longest file read, in data rows. *)
MaxRows == 3

SampleInstants == {14, 25}

(* Rows as write_outputs_for_result writes them, with the instant and the  *)
(* duration each stands for.                                               *)
WrittenRows ==
    { [cells |-> RowOf([NoResult EXCEPT !.timestamp_local = isoformat(t),
                                        !.day_of_week = strftime_A(t),
                                        !.name = urls[1].name,
                                        !.duration_minutes = d]),
       ts |-> Some(t), duration |-> d] :
         t \in SampleInstants, d \in {None, Some(27), Some(38)} }

(* Rows written by another hand: a timestamp without zone information     *)
(* (local time), a text that is no timestamp, no timestamp at all; a       *)
(* number, a text that is no number.                                       *)
ForeignRows ==
    { [cells |-> <<t.text, <<>>, <<>>, <<>>, d.text>>, ts |-> t.ts, duration |-> d.duration] :
         t \in { [text |-> <<"2","0">>, ts |-> Some(25)],
                 [text |-> <<"x","7">>, ts |-> None],
                 [text |-> <<>>, ts |-> None] },
         d \in { [text |-> <<"2","7">>, duration |-> Some(27)],
                 [text |-> <<"a","b","c">>, duration |-> None] } }

RowPool == WrittenRows \cup ForeignRows

CsvCalls ==
    { [fn |-> "load_csv_points", rows |-> rows] :
        rows \in UNION { [1..n -> RowPool] : n \in 0..MaxRows } }

(* The file of a call: the header line, then the rows' lines. *)
FileOf(rows) == <<OUTPUT_FIELDS>> \o [k \in 1..Len(rows) |-> rows[k].cells]

InitCsv ==
    /\ MainInit
    /\ pc = "call"
    /\ fn_in \in CsvCalls
    /\ fn_out = None

CsvCall ==
    /\ pc = "call"
    /\ fn_in.fn = "load_csv_points"
    /\ fn_out' = load_csv_points(FileOf(fn_in.rows))
    /\ pc' = "ret"
    /\ UNCHANGED <<mainvars, fn_in>>

NextCsv == CsvCall

SpecCsv == InitCsv /\ [][NextCsv]_vars

WellFormed(row) == row.ts # None /\ row.duration # None

Occurrences(s, x) == Cardinality({i \in 1..Len(s) : s[i] = x})

(* C9: load_csv_points returns one sample for every row with a parsable   *)
(* timestamp and a numeric duration and none for any other row, sorted     *)
(* ascending by timestamp: N well-formed rows read back as N samples.      *)
C9_LoadKeepsWellFormedRowsSorted ==
    (pc = "ret" /\ fn_in.fn = "load_csv_points") =>
        LET good == SelectSeq(fn_in.rows, WellFormed)
            expected == [k \in 1..Len(good) |->
                            [ts |-> Val(good[k].ts), duration |-> Val(good[k].duration)]]
        IN /\ Len(fn_out) = Len(good)
           /\ \A k \in 1..Len(expected) :
                 Occurrences(fn_out, expected[k]) = Occurrences(expected, expected[k])
           /\ \A i, j \in 1..Len(fn_out) : i < j => fn_out[i].ts <= fn_out[j].ts

(* C9 witness: three rows, one of them malformed, the other two out of    *)
(* order in the file; two samples came back.                               *)
C9_Witness ==
    /\ pc = "ret"
    /\ fn_in.fn = "load_csv_points"
    /\ Len(fn_in.rows) = 3
    /\ WellFormed(fn_in.rows[1])
    /\ ~WellFormed(fn_in.rows[2])
    /\ WellFormed(fn_in.rows[3])
    /\ Val(fn_in.rows[1].ts) > Val(fn_in.rows[3].ts)
    /\ Len(fn_out) = 2
    /\ fn_out[1].ts < fn_out[2].ts

-----------------------------------------------------------------------------
(* generate_graph: the decimation of the raw samples before plotting *)

max_points == 5000

Max(a, b) == IF a >= b THEN a ELSE b

(* points[::step] *)
Slice(points, step) ==
    [k \in 1..((Len(points) + step - 1) \div step) |-> points[(k - 1) * step + 1]]

decimated(points) ==
    IF Len(points) > max_points
    THEN LET step == Max(1, Len(points) \div max_points)
         IN Slice(points, step)
    ELSE points

(* Every length up to ShortSeries is tried, and the lengths about the      *)
(* multiples of max_points.                                                *)
ShortSeries == 50

SeriesLengths ==
    (0..ShortSeries)
    \cup {max_points - 1, max_points, max_points + 1, 2 * max_points - 1,
          2 * max_points, 12000, 3 * max_points + 1}

(* A series is given by its samples' positions. *)
GraphCalls == { [fn |-> "generate_graph", points |-> [i \in 1..n |-> i]] : n \in SeriesLengths }

InitGraph ==
    /\ MainInit
    /\ pc = "call"
    /\ fn_in \in GraphCalls
    /\ fn_out = None

Decimate ==
    /\ pc = "call"
    /\ fn_in.fn = "generate_graph"
    /\ fn_out' = decimated(fn_in.points)
    /\ pc' = "ret"
    /\ UNCHANGED <<mainvars, fn_in>>

NextGraph == Decimate

SpecGraph == InitGraph /\ [][NextGraph]_vars

(* C10: a series longer than max_points is cut to every                   *)
(* ceil(len/max_points)-th sample, in order, from the first on, so that no *)
(* more than max_points samples are left; a series of at most max_points   *)
(* samples is left as it is.                                               *)
C10_DecimatedWithinMaxPoints ==
    (pc = "ret" /\ fn_in.fn = "generate_graph") =>
        LET n == Len(fn_in.points)
            stride == (n + max_points - 1) \div max_points
        IN IF n <= max_points THEN fn_out = fn_in.points
           ELSE /\ Len(fn_out) <= max_points
                /\ \A k \in 1..Len(fn_out) : fn_out[k] = fn_in.points[(k - 1) * stride + 1]
                /\ Len(fn_out) * stride >= n

-----------------------------------------------------------------------------
(* generate_all_graphs: one chart per CSV file of the output directory *)

(* The most files in the output directory. *)
MaxFiles == 3

(* What rendering a file's chart does: it ends well or raises. *)
RenderOutcomes == {"ok", "raises"}

(* The files: a header alone, one row with a duration, one row without.    *)
FileLines ==
    { FileOf(rows) : rows \in {<<>>} \cup { <<r>> : r \in {w \in WrittenRows : w.ts = Some(14)} } }

GraphFiles == { [lines |-> l, render |-> o] : l \in FileLines, o \in RenderOutcomes }

AllGraphsCalls ==
    { [fn |-> "generate_all_graphs", files |-> fs] :
        fs \in UNION { [1..n -> GraphFiles] : n \in 0..MaxFiles } }

(* generate_graph on one file: None when the file holds no point, the      *)
(* image when the chart is rendered, or an exception.                      *)
generate_graph(file) ==
    IF load_csv_points(file.lines) = <<>> THEN "none"
    ELSE IF file.render = "raises" THEN "exception"
    ELSE "image"

(* A faulty variant: the exception is not caught. *)
except_Exception_uncaught(outcome) ==
    IF outcome = "exception" THEN "crashed" ELSE "call"

(* try: generate_graph(csv_path) / except Exception: log_message(...): the *)
(* loop goes on whatever the outcome.                                      *)
except_Exception(outcome) == "call"

InitAllGraphs ==
    /\ MainInit
    /\ pc = "call"
    /\ fn_in \in AllGraphsCalls
    /\ fn_out = [at |-> 0, charts |-> {}, logged |-> <<>>]

(* One pass of the loop over csv_paths. *)
GraphOfNextFile ==
    /\ pc = "call"
    /\ fn_in.fn = "generate_all_graphs"
    /\ fn_out.at < Len(fn_in.files)
    /\ \E k \in {fn_out.at + 1} :
       \E outcome \in {generate_graph(fn_in.files[k])} :
          /\ fn_out' = [at |-> k,
                        charts |-> IF outcome = "image" THEN fn_out.charts \cup {k}
                                   ELSE fn_out.charts,
                        logged |-> IF outcome = "exception" THEN Append(fn_out.logged, k)
                                   ELSE fn_out.logged]
          /\ pc' = except_Exception(outcome)
    /\ UNCHANGED <<mainvars, fn_in>>

(* The loop is over: generate_all_graphs returns. *)
AllGraphsReturn ==
    /\ pc = "call"
    /\ fn_in.fn = "generate_all_graphs"
    /\ fn_out.at = Len(fn_in.files)
    /\ pc' = "ret"
    /\ UNCHANGED <<mainvars, fn_in, fn_out>>

NextAllGraphs == GraphOfNextFile \/ AllGraphsReturn

SpecAllGraphs == InitAllGraphs /\ [][NextAllGraphs]_vars

HasPoints(file) ==
    \E r \in 2..Len(file.lines) : file.lines[r][1] # <<>> /\ file.lines[r][5] # <<>>

(* C11: a chart whose rendering raises is logged and skipped, and every    *)
(* other file with points still gets its chart: the loop passes over every *)
(* file and the call returns.                                              *)
C11_RenderFailureSkipsOneChart ==
    /\ pc \in {"call", "ret"}
    /\ pc = "ret" => fn_out.at = Len(fn_in.files)
    /\ \A k \in 1..fn_out.at :
          /\ k \in fn_out.charts <=>
                (HasPoints(fn_in.files[k]) /\ fn_in.files[k].render = "ok")
          /\ Occurrences(fn_out.logged, k) =
                (IF HasPoints(fn_in.files[k]) /\ fn_in.files[k].render = "raises"
                 THEN 1 ELSE 0)

(* C11 witness: the first file's chart raised, and the second file's and   *)
(* the third file's charts were made all the same.                         *)
C11_Witness ==
    /\ pc = "ret"
    /\ Len(fn_in.files) = 3
    /\ HasPoints(fn_in.files[1])
    /\ fn_in.files[1].render = "raises"
    /\ fn_out.logged = <<1>>
    /\ fn_out.charts = {2, 3}

-----------------------------------------------------------------------------
(* The selector rule of the PRIMARY and RETRY_WAIT tiers *)

(* The text of the first selector, in list order, whose node is there and  *)
(* has a text that is not empty; None when there is no such selector.      *)
FirstNonEmpty(nodes) ==
    LET ks == {k \in 1..Len(nodes) : nodes[k] # None /\ Strip(Val(nodes[k])) # <<>>}
    IN IF ks = {} THEN None
       ELSE Some(Strip(Val(nodes[CHOOSE k \in ks : \A j \in ks : k <= j])))

(* A raw text that is empty supplies nothing. *)
TextOrNone(o) == IF Truthy(o) THEN o ELSE None

(* C12: PRIMARY takes the text of the first selector of the list that      *)
(* yields a non-empty text, skipping a selector whose node is absent or    *)
(* empty, and RETRY_WAIT applies the same rule to the page after the wait. *)
C12_FirstNonEmptySelectorWins ==
    (InPipeline /\ tiers # <<>>) =>
        /\ TextOrNone(result.duration) = FirstNonEmpty(Pages[page].sel_first)
        /\ Len(tiers) >= 2 =>
              TextOrNone(retry_duration_text) = FirstNonEmpty(Pages[page].sel_retry)

-----------------------------------------------------------------------------
(* The statistics of a series.  A point is [ts, duration]: an instant and  *)
(* whole minutes.  A median is a fraction <<numerator, denominator>> in    *)
(* lowest terms, the denominator 1 or 2.                                   *)

PEAK_BUCKETS ==
    << [name |-> "AM peak", start |-> 7, end |-> 9],
       [name |-> "PM peak", start |-> 15, end |-> 17] >>

(* A faulty variant: the end of the range is part of it. *)
in_range_closed(hour, start, end) ==
    IF start <= end THEN start <= hour /\ hour <= end
    ELSE hour >= start \/ hour <= end

in_range(hour, start, end) ==
    IF start <= end THEN start <= hour /\ hour < end
    ELSE hour >= start \/ hour < end

(* ts.astimezone(LOCAL_TZ).hour *)
local_hour(ts) == (ts + LocalUtcOffset) % 24

is_peak(ts) ==
    \E b \in 1..Len(PEAK_BUCKETS) :
        in_range(local_hour(ts), PEAK_BUCKETS[b].start, PEAK_BUCKETS[b].end)

(* sorted(values), on numbers *)
RECURSIVE sorted_values(_)
sorted_values(values) ==
    IF values = <<>> THEN <<>>
    ELSE LET rest == sorted_values(SubSeq(values, 1, Len(values) - 1))
             v == values[Len(values)]
             n == Cardinality({i \in 1..Len(rest) : rest[i] <= v})
         IN SubSeq(rest, 1, n) \o <<v>> \o SubSeq(rest, n + 1, Len(rest))

Half(n) == IF n % 2 = 0 THEN <<n \div 2, 1>> ELSE <<n, 2>>

(* statistics.median of a non-empty list: the middle value, or the mean of *)
(* the two middle values.                                                  *)
median(values) ==
    LET s == sorted_values(values)
        n == Len(s)
    IN IF n % 2 = 1 THEN <<s[(n \div 2) + 1], 1>>
       ELSE Half(s[n \div 2] + s[(n \div 2) + 1])

(* by_day[day]: the durations of the peak points of that weekday, in order *)
RECURSIVE by_day(_, _, _)
by_day(points, day, k) ==
    IF k > Len(points) THEN <<>>
    ELSE (IF is_peak(points[k].ts) /\ strftime_A(points[k].ts) = day
          THEN <<points[k].duration>> ELSE <<>>)
         \o by_day(points, day, k + 1)

(* weekday_peak_medians: the dict, as a function on the days it holds. *)
weekday_peak_medians(points) ==
    [day \in {strftime_A(points[k].ts) : k \in {j \in 1..Len(points) : is_peak(points[j].ts)}}
        |-> median(by_day(points, day, 1))]

(* The longest series given to the statistics. *)
MaxSamples == 3

(* Monday 08:00, 12:00 and 16:00, Tuesday 07:00 and 09:00, local time. *)
StatInstants == {13, 17, 21, 36, 38}

StatDurations == {20, 27, 38}

StatPoints == { [ts |-> t, duration |-> d] : t \in StatInstants, d \in StatDurations }

(* Series as load_csv_points returns them: ascending by instant. *)
StatSeries ==
    { s \in UNION { [1..n -> StatPoints] : n \in 0..MaxSamples } :
        \A i \in 1..(Len(s) - 1) : s[i].ts <= s[i + 1].ts }

InitWeekday ==
    /\ MainInit
    /\ pc = "call"
    /\ fn_in \in { [fn |-> "weekday_peak_medians", points |-> s] : s \in StatSeries }
    /\ fn_out = None

WeekdayCall ==
    /\ pc = "call"
    /\ fn_in.fn = "weekday_peak_medians"
    /\ fn_out' = weekday_peak_medians(fn_in.points)
    /\ pc' = "ret"
    /\ UNCHANGED <<mainvars, fn_in>>

NextWeekday == WeekdayCall

SpecWeekday == InitWeekday /\ [][NextWeekday]_vars

(* The value of rank r (counted from 0) among the values at the positions  *)
(* ks of a series, found by counting.                                      *)
Ranked(points, ks, r) ==
    CHOOSE v \in {points[k].duration : k \in ks} :
        /\ Cardinality({k \in ks : points[k].duration < v}) <= r
        /\ Cardinality({k \in ks : points[k].duration <= v}) > r

MedianAt(points, ks) ==
    Half(Ranked(points, ks, (Cardinality(ks) - 1) \div 2)
         + Ranked(points, ks, Cardinality(ks) \div 2))

DayOf(ts) == DayNames[(((ts + LocalUtcOffset) \div 24) % 7) + 1]

PeakHours == {7, 8, 15, 16}

(* C13, as stated: every weekday that has a sample is in the result, with  *)
(* the median of all that weekday's samples; an empty series gives an      *)
(* empty result.                                                           *)
C13_MedianOfAllSamplesByWeekday ==
    (pc = "ret" /\ fn_in.fn = "weekday_peak_medians") =>
        /\ DOMAIN fn_out = {DayOf(fn_in.points[k].ts) : k \in 1..Len(fn_in.points)}
        /\ \A day \in DOMAIN fn_out :
              fn_out[day] = MedianAt(fn_in.points,
                               {k \in 1..Len(fn_in.points) : DayOf(fn_in.points[k].ts) = day})

(* C13, amended: weekday_peak_medians groups the samples taken in a peak   *)
(* hour (local hour 7, 8, 15 or 16) by weekday name and returns, for every *)
(* weekday that has at least one such sample, the median duration of       *)
(* them; a series without such a sample, the empty one included, gives an  *)
(* empty result.                                                           *)
C13_MedianOfPeakSamplesByWeekday ==
    (pc = "ret" /\ fn_in.fn = "weekday_peak_medians") =>
        LET peak == {k \in 1..Len(fn_in.points) :
                        (fn_in.points[k].ts + LocalUtcOffset) % 24 \in PeakHours}
        IN /\ DOMAIN fn_out = {DayOf(fn_in.points[k].ts) : k \in peak}
           /\ \A day \in DOMAIN fn_out :
                 fn_out[day] = MedianAt(fn_in.points,
                                  {k \in peak : DayOf(fn_in.points[k].ts) = day})

(* C13 witness: a Monday with two peak samples and one at noon, which does *)
(* not count: the median is the mean of the two.                           *)
C13_Witness ==
    /\ pc = "ret"
    /\ fn_in.fn = "weekday_peak_medians"
    /\ [k \in 1..Len(fn_in.points) |-> fn_in.points[k].ts] = <<13, 17, 21>>
    /\ [k \in 1..Len(fn_in.points) |-> fn_in.points[k].duration] = <<20, 38, 27>>
    /\ DOMAIN fn_out = {DayNames[1]}
    /\ fn_out[DayNames[1]] = <<47, 2>>

-----------------------------------------------------------------------------
(* Python's float: binary floating point with a significand of             *)
(* SignificandBits bits, every operation rounded to the nearest, ties to   *)
(* the even significand.  A float that is not negative is [m, e], standing *)
(* for m * 2^e, with m a natural number of exactly SignificandBits bits,   *)
(* or m = 0.  A natural number is the sequence of its digits in base       *)
(* LimbBase, the lowest first, without leading zeros: <<>> is 0.           *)

LimbBits == 13

LimbBase == 2^LimbBits

SignificandBits == 53

Trim(a) ==
    LET nz == {i \in 1..Len(a) : a[i] # 0}
    IN IF nz = {} THEN <<>>
       ELSE SubSeq(a, 1, CHOOSE i \in nz : \A j \in nz : j <= i)

Limb(a, i) == IF i <= Len(a) THEN a[i] ELSE 0

RECURSIVE AddFrom(_, _, _, _)
AddFrom(a, b, i, carry) ==
    IF i > Len(a) /\ i > Len(b)
    THEN (IF carry = 0 THEN <<>> ELSE <<carry>>)
    ELSE <<(Limb(a, i) + Limb(b, i) + carry) % LimbBase>>
         \o AddFrom(a, b, i + 1, (Limb(a, i) + Limb(b, i) + carry) \div LimbBase)

NatAdd(a, b) == AddFrom(a, b, 1, 0)

RECURSIVE SubFrom(_, _, _, _)
SubFrom(a, b, i, borrow) ==
    IF i > Len(a) THEN <<>>
    ELSE IF a[i] - Limb(b, i) - borrow < 0
         THEN <<a[i] - Limb(b, i) - borrow + LimbBase>> \o SubFrom(a, b, i + 1, 1)
         ELSE <<a[i] - Limb(b, i) - borrow>> \o SubFrom(a, b, i + 1, 0)

(* a - b, for a >= b *)
NatSub(a, b) == Trim(SubFrom(a, b, 1, 0))

RECURSIVE MulSmallFrom(_, _, _, _)
MulSmallFrom(a, x, i, carry) ==
    IF i > Len(a) THEN (IF carry = 0 THEN <<>> ELSE <<carry>>)
    ELSE <<(a[i] * x + carry) % LimbBase>>
         \o MulSmallFrom(a, x, i + 1, (a[i] * x + carry) \div LimbBase)

(* a * x, for x < LimbBase *)
NatMulSmall(a, x) == Trim(MulSmallFrom(a, x, 1, 0))

RECURSIVE MulFrom(_, _, _)
MulFrom(a, b, i) ==
    IF i > Len(b) THEN <<>>
    ELSE Trim(NatAdd(NatMulSmall(a, b[i]), <<0>> \o MulFrom(a, b, i + 1)))

NatMul(a, b) == MulFrom(a, b, 1)

(* Quotient and remainder of the digits i, i-1, ..., 1 of a, after the     *)
(* remainder rem of the higher ones, by d <= LimbBase.                     *)
RECURSIVE DivSmallFrom(_, _, _, _)
DivSmallFrom(a, d, i, rem) ==
    IF i = 0 THEN [q |-> <<>>, r |-> rem]
    ELSE LET lower == DivSmallFrom(a, d, i - 1, (rem * LimbBase + a[i]) % d)
         IN [q |-> Append(lower.q, (rem * LimbBase + a[i]) \div d), r |-> lower.r]

NatDivSmall(a, d) ==
    LET qr == DivSmallFrom(a, d, Len(a), 0)
    IN [q |-> Trim(qr.q), r |-> qr.r]

NatShiftLeft(a, s) ==
    IF a = <<>> THEN <<>>
    ELSE [i \in 1..(s \div LimbBits) |-> 0] \o NatMulSmall(a, 2^(s % LimbBits))

NatShiftRight(a, s) ==
    IF s \div LimbBits >= Len(a) THEN <<>>
    ELSE NatDivSmall(SubSeq(a, (s \div LimbBits) + 1, Len(a)), 2^(s % LimbBits)).q

NatBitLen(a) ==
    IF a = <<>> THEN 0
    ELSE (Len(a) - 1) * LimbBits
         + (CHOOSE n \in 1..LimbBits : 2^(n - 1) <= a[Len(a)] /\ a[Len(a)] < 2^n)

(* a < b *)
NatLess(a, b) ==
    \/ Len(a) < Len(b)
    \/ /\ Len(a) = Len(b)
       /\ \E i \in 1..Len(a) :
             a[i] < b[i] /\ \A j \in (i + 1)..Len(a) : a[j] = b[j]

(* The natural number n, for an n that fits in three digits. *)
NatOf(n) == Trim(<<n % LimbBase, (n \div LimbBase) % LimbBase, n \div (LimbBase * LimbBase)>>)

(* The number a, for an a of at most two digits. *)
IntOfNat(a) == Limb(a, 1) + Limb(a, 2) * LimbBase

NatIsOdd(a) == a # <<>> /\ a[1] % 2 = 1

(* The float nearest to (m + t) * 2^e, where 0 <= t < 1 and sticky tells   *)
(* whether t > 0; ties go to the even significand.                         *)
RoundToFloat(m, e, sticky) ==
    IF m = <<>> THEN [m |-> <<>>, e |-> 0]
    ELSE LET s == NatBitLen(m) - SignificandBits
         IN IF s <= 0 THEN [m |-> NatShiftLeft(m, 0 - s), e |-> e + s]
            ELSE LET q == NatShiftRight(m, s)
                     rem == NatSub(m, NatShiftLeft(q, s))
                     half == NatShiftLeft(<<1>>, s - 1)
                     up == \/ NatLess(half, rem)
                           \/ rem = half /\ (sticky \/ NatIsOdd(q))
                     r == IF up THEN NatAdd(q, <<1>>) ELSE q
                 IN IF NatBitLen(r) > SignificandBits
                    THEN [m |-> NatShiftRight(r, 1), e |-> e + s + 1]
                    ELSE [m |-> r, e |-> e + s]

(* float(n) for an integer n >= 0 *)
FloatOf(n) == RoundToFloat(NatOf(n), 0, FALSE)

Min(a, b) == IF a <= b THEN a ELSE b

(* The significand of x counted in units of 2^e, for e <= x.e. *)
Aligned(x, e) == NatShiftLeft(x.m, x.e - e)

FloatAdd(x, y) ==
    IF x.m = <<>> THEN y
    ELSE IF y.m = <<>> THEN x
    ELSE RoundToFloat(Trim(NatAdd(Aligned(x, Min(x.e, y.e)), Aligned(y, Min(x.e, y.e)))),
                      Min(x.e, y.e), FALSE)

FloatLess(x, y) ==
    IF y.m = <<>> THEN FALSE
    ELSE IF x.m = <<>> THEN TRUE
    ELSE NatLess(Aligned(x, Min(x.e, y.e)), Aligned(y, Min(x.e, y.e)))

(* x - y, for x >= y *)
FloatSub(x, y) ==
    IF y.m = <<>> THEN x
    ELSE RoundToFloat(NatSub(Aligned(x, Min(x.e, y.e)), Aligned(y, Min(x.e, y.e))),
                      Min(x.e, y.e), FALSE)

FloatMul(x, y) ==
    IF x.m = <<>> \/ y.m = <<>> THEN [m |-> <<>>, e |-> 0]
    ELSE RoundToFloat(NatMul(x.m, y.m), x.e + y.e, FALSE)

(* The bits kept below the point while dividing. *)
GuardBits == 2 * LimbBits * 5

(* x / d for an integer 0 < d <= LimbBase *)
FloatDivSmall(x, d) ==
    LET qr == NatDivSmall(NatShiftLeft(x.m, GuardBits), d)
    IN RoundToFloat(qr.q, x.e - GuardBits, qr.r # 0)

(* int(x): the whole part of x, for a small x *)
IntOfFloat(x) ==
    IF x.m = <<>> THEN 0
    ELSE IF x.e >= 0 THEN IntOfNat(NatShiftLeft(x.m, x.e))
    ELSE IntOfNat(NatShiftRight(x.m, 0 - x.e))


-----------------------------------------------------------------------------
(* percentile *)

(* percentile(values, pct), for values that are whole numbers and a whole  *)
(* pct; sorted_vals[f] of the code is sorted_vals[f + 1] here.             *)
percentile(values, pct) ==
    IF values = <<>> THEN None
    ELSE LET sorted_vals == sorted_values(values)
             k == FloatMul(FloatOf(Len(sorted_vals) - 1), FloatDivSmall(FloatOf(pct), 100))
             f == IntOfFloat(k)
             c == Min(f + 1, Len(sorted_vals) - 1)
             d0 == FloatMul(FloatOf(sorted_vals[f + 1]), FloatSub(FloatOf(c), k))
             d1 == FloatMul(FloatOf(sorted_vals[c + 1]), FloatSub(k, FloatOf(f)))
         IN IF pct <= 0 THEN Some(FloatOf(sorted_vals[1]))
            ELSE IF pct >= 100 THEN Some(FloatOf(sorted_vals[Len(sorted_vals)]))
            ELSE IF f = c THEN Some(FloatOf(sorted_vals[f + 1]))
            ELSE Some(FloatAdd(d0, d1))


(* The longest list of the lists made of PercentileValues. *)
MaxValues == 2

PercentileValues == {3, 10, 20, 27, 30, 40}

PercentileLists ==
    UNION { [1..n -> PercentileValues] : n \in 0..MaxValues }
    \cup { <<10, 20, 30, 40>>, <<40, 10, 30, 20>> }

Percents == {0 - 5, 0, 5, 25, 50, 95, 98, 100, 120}

InitPercentile ==
    /\ MainInit
    /\ pc = "call"
    /\ fn_in \in { [fn |-> "percentile", values |-> v, pct |-> p] :
                     v \in PercentileLists, p \in Percents }
    /\ fn_out = None

PercentileCall ==
    /\ pc = "call"
    /\ fn_in.fn = "percentile"
    /\ fn_out' = percentile(fn_in.values, fn_in.pct)
    /\ pc' = "ret"
    /\ UNCHANGED <<mainvars, fn_in>>

NextPercentile == PercentileCall

SpecPercentile == InitPercentile /\ [][NextPercentile]_vars

Least(values) ==
    CHOOSE v \in {values[i] : i \in 1..Len(values)} : \A i \in 1..Len(values) : v <= values[i]

Greatest(values) ==
    CHOOSE v \in {values[i] : i \in 1..Len(values)} : \A i \in 1..Len(values) : v >= values[i]

(* C14: on a non-empty list percentile returns the minimum for p <= 0 and  *)
(* the maximum for p >= 100, and in between a value that is not below the  *)
(* minimum and not above the maximum; percentile([10,20,30,40], 50) = 25.  *)
C14_PercentileWithinMinMax ==
    (pc = "ret" /\ fn_in.fn = "percentile" /\ fn_in.values # <<>>) =>
        /\ fn_out # None
        /\ fn_in.pct <= 0 => Val(fn_out) = FloatOf(Least(fn_in.values))
        /\ fn_in.pct >= 100 => Val(fn_out) = FloatOf(Greatest(fn_in.values))
        /\ ~FloatLess(Val(fn_out), FloatOf(Least(fn_in.values)))
        /\ ~FloatLess(FloatOf(Greatest(fn_in.values)), Val(fn_out))
        /\ (fn_in.values = <<10, 20, 30, 40>> /\ fn_in.pct = 50) => Val(fn_out) = FloatOf(25)


-----------------------------------------------------------------------------
(* generate_graph: the rolling median *)

(* A faulty variant: the window is not kept within 20 and 240. *)
window_unclamped(n) == n \div 12

(* window = max(20, min(240, len(points) // 12)), n = len(points) *)
window(n) == Max(20, Min(240, n \div 12))

(* chunk = [p[1] for p in points[start : idx + 1]], start = max(0, idx - window + 1), *)
(* for the 0-based index ix; points[idx] of the code is points[ix + 1] here. *)
chunk(points, ix, w) ==
    [j \in 1..(ix + 1 - Max(0, ix - w + 1)) |-> points[Max(0, ix - w + 1) + j].duration]

(* roll_points for the 0-based indexes lo .. hi, in order: the loop over   *)
(* range(len(points)), cut in halves.                                      *)
RECURSIVE roll_range(_, _, _, _)
roll_range(points, lo, hi, w) ==
    IF lo > hi THEN <<>>
    ELSE IF lo = hi
         THEN (IF chunk(points, lo, w) # <<>>
               THEN <<[ts |-> points[lo + 1].ts, median |-> median(chunk(points, lo, w))]>>
               ELSE <<>>)
    ELSE roll_range(points, lo, (lo + hi) \div 2, w)
         \o roll_range(points, ((lo + hi) \div 2) + 1, hi, w)

roll_points(points) == roll_range(points, 0, Len(points) - 1, window(Len(points)))

(* Every length up to MaxRollLen is tried, and LongRollLen, whose window   *)
(* is above the least one.                                                 *)
MaxRollLen == 24

LongRollLen == 264

(* Two series of a length: one that goes up and down, one that only rises. *)
RollSeries(n, shape) ==
    [i \in 1..n |-> [ts |-> i, duration |->
                        IF shape = "wavy" THEN 20 + ((i * 7) % 11) ELSE 20 + i]]

RollCalls ==
    { [fn |-> "roll_points", points |-> RollSeries(n, shape)] :
        n \in (0..MaxRollLen) \cup {LongRollLen}, shape \in {"wavy", "rising"} }

(* The lengths whose window is computed: about every change of the window. *)
WindowLengths ==
    (0..MaxRollLen)
    \cup {239, 240, 251, 252, 263, 264, 1200, 2879, 2880, 2891, 2892, 5000, 12000}

WindowCalls == { [fn |-> "window", n |-> n] : n \in WindowLengths }

InitRolling ==
    /\ MainInit
    /\ pc = "call"
    /\ fn_in \in RollCalls \cup WindowCalls
    /\ fn_out = None

RollingCall ==
    /\ pc = "call"
    /\ fn_in.fn = "roll_points"
    /\ fn_out' = roll_points(fn_in.points)
    /\ pc' = "ret"
    /\ UNCHANGED <<mainvars, fn_in>>

WindowCall ==
    /\ pc = "call"
    /\ fn_in.fn = "window"
    /\ fn_out' = Some(window(fn_in.n))
    /\ pc' = "ret"
    /\ UNCHANGED <<mainvars, fn_in>>

NextRolling == RollingCall \/ WindowCall

SpecRolling == InitRolling /\ [][NextRolling]_vars

(* len/12 in whole samples, kept within 20 and 240 *)
Clamped(n) ==
    IF n \div 12 < 20 THEN 20 ELSE IF n \div 12 > 240 THEN 240 ELSE n \div 12

(* C15: the rolling median series has one point per sample, and the point  *)
(* of sample i is the median of the samples max(first, i-window+1) .. i,   *)
(* none after i, with the one window clamp(len/12, 20, 240) for the whole  *)
(* series.                                                                 *)
C15_RollingMedianIsTrailing ==
    /\ (pc = "ret" /\ fn_in.fn = "window") => fn_out = Some(Clamped(fn_in.n))
    /\ (pc = "ret" /\ fn_in.fn = "roll_points") =>
          /\ Len(fn_out) = Len(fn_in.points)
          /\ \A i \in 1..Len(fn_out) :
                /\ fn_out[i].ts = fn_in.points[i].ts
                /\ fn_out[i].median =
                      MedianAt(fn_in.points,
                               {k \in 1..i : k > i - Clamped(Len(fn_in.points))})

(* C15 witness: a rising series longer than its window: the second point   *)
(* is the median of the first two samples, the last point's median leaves  *)
(* the early samples out.                                                  *)
C15_Witness ==
    /\ pc = "ret"
    /\ fn_in.fn = "roll_points"
    /\ Len(fn_in.points) = LongRollLen
    /\ Len(fn_out) = LongRollLen
    /\ fn_out[LongRollLen].median # MedianAt(fn_in.points, 1..LongRollLen)
    /\ fn_out[2].median = <<43, 2>>

(* C15 witness of the window: 264 samples have the window 22. *)
C15_WindowReached ==
    /\ pc = "ret"
    /\ fn_in.fn = "window"
    /\ fn_in.n = 264
    /\ fn_out = Some(22)

====
